---- MODULE Spec2Model ----
(***************************************************************************)
(* Transaction graph construction (graph_construction.py), FMEA scoring    *)
(* (fmea_implementation.py) and the summary report (summary_report.py).    *)
(*                                                                         *)
(* The graph store is modelled as a sequence of Transaction nodes (a       *)
(* node's position is its database identity) and a bag of relationships    *)
(* (CREATE always adds a new relationship, so multiplicity matters).       *)
(* Amounts are whole currency units and every comparison on them is exact  *)
(* arithmetic; timestamps are the fields of the ISO-8601 string that       *)
(* load_data stores, <<day, hour, minute, second>> of one month.           *)
(***************************************************************************)
EXTENDS Integers, Sequences, FiniteSets, Bags, TLC

VARIABLES
    df,       \* the cleaned batch main passes to create_transaction_nodes
    nodes,    \* the Transaction nodes, in creation order
    edges,    \* the bag of NEXT and SIMILAR relationships
    runs,     \* how often each builder step has run
    ordered,  \* the builder steps have run in main's order so far
    last      \* the most recent operation and what it returned or printed

vars == <<df, nodes, edges, runs, ordered, last>>

(***************************************************************************)
(* Bounds of the exploration.                                              *)
(***************************************************************************)
MaxRows == 3
MaxPop == 7
MaxNodes == 3
MaxNodeRuns == 2
MaxNextRuns == 2
MaxSimRuns == 2

(***************************************************************************)
(* Program constants.                                                      *)
(***************************************************************************)
TolerancePct == 10
WindowSeconds == 3600
DetectionConst == 5
OccurrenceCap == 10
SeverityHigh == 10
SeverityMid == 7
SeverityLow == 3
DefaultThreshold == 30
Unset == -1
NoMode == "null"

Thresholds == {DefaultThreshold, 100}

(***************************************************************************)
(* Input domains.                                                          *)
(***************************************************************************)
\* Rows of the transaction file after cleaning: amount, type and time. The
\* pairs among them cover equal and different types, amounts within and
\* outside the tolerance in one or both directions, equal timestamps, time
\* differences below and exactly at the window, and an amount of 0.
RawRows ==
    {[amount |-> 100, type |-> "Debit", time |-> <<1, 10, 0, 0>>],
     [amount |-> 105, type |-> "Debit", time |-> <<1, 10, 10, 0>>],
     [amount |-> 111, type |-> "Debit", time |-> <<1, 10, 10, 0>>],
     [amount |-> 100, type |-> "Debit", time |-> <<1, 11, 0, 0>>],
     [amount |-> 100, type |-> "Credit", time |-> <<1, 10, 0, 0>>],
     [amount |-> 0, type |-> "Debit", time |-> <<1, 10, 0, 0>>]}

SeqsUpTo(S, n) == UNION {[1..k -> S] : k \in 0..n}

RawBatches == SeqsUpTo(RawRows, MaxRows)

\* Population batches for the scoring statistics: MaxPop rows of one type,
\* row i at minute i of one hour, amounts in non-decreasing row order
\* (scoring does not depend on the row order).  The amounts give all three
\* severities, a node exactly at mean + 2 stddev, and a pair (60, 66) that
\* is within the tolerance in one direction only.
PopAmounts == {60, 62, 66}
PopType == "Debit"

PopBatches ==
    {[i \in 1..MaxPop |-> [amount |-> a[i], type |-> PopType, time |-> <<1, 10, i, 0>>]] :
        a \in {s \in [1..MaxPop -> PopAmounts] :
                 \A i \in 1..MaxPop : \A j \in 1..MaxPop : i < j => s[i] <= s[j]}}

(***************************************************************************)
(* load_data: Transaction_ID is str(row index), timestamp_str the ISO      *)
(* string of the row's date and time.  The batches here are far shorter    *)
(* than the 1000 rows load_data keeps, so df[:1000] drops nothing.         *)
(***************************************************************************)
Digits == <<"0", "1", "2", "3", "4", "5", "6", "7", "8", "9">>

RECURSIVE ToStr(_)
ToStr(i) == IF i < 10 THEN Digits[i + 1] ELSE ToStr(i \div 10) \o Digits[(i % 10) + 1]

load_data(raw) ==
    [i \in 1..Len(raw) |->
        [Transaction_ID |-> ToStr(i - 1),
         Transaction_Amount |-> raw[i].amount,
         Transaction_Type |-> raw[i].type,
         timestamp |-> raw[i].time]]

\* Order of two ISO strings of the same fixed-width layout: field by field.
RECURSIVE IsoLess(_, _)
IsoLess(a, b) ==
    IF a = <<>> THEN FALSE
    ELSE IF Head(a) # Head(b) THEN Head(a) < Head(b)
    ELSE IsoLess(Tail(a), Tail(b))

\* datetime(ts): the instant, in seconds from the start of the month.
EpochSeconds(ts) == (((ts[1] - 1) * 24 + ts[2]) * 60 + ts[3]) * 60 + ts[4]

\* duration.inSeconds(datetime(a), datetime(b)).seconds
SecondsBetween(a, b) == EpochSeconds(b) - EpochSeconds(a)

Abs(x) == IF x < 0 THEN -x ELSE x

(***************************************************************************)
(* create_transaction_nodes: one CREATE per row, no uniqueness check.      *)
(***************************************************************************)
NewNode(row) ==
    [Transaction_ID |-> row.Transaction_ID,
     Transaction_Amount |-> row.Transaction_Amount,
     Transaction_Type |-> row.Transaction_Type,
     timestamp |-> row.timestamp,
     severity |-> Unset, occurrence |-> Unset, detection |-> Unset,
     RPN |-> Unset, failure_mode |-> NoMode]

CreatedNodes(g, d) == g \o [i \in 1..Len(d) |-> NewNode(d[i])]

(***************************************************************************)
(* create_next_relationships                                               *)
(***************************************************************************)
\* The nodes of S that no other node of S precedes in timestamp order.
Earliest(g, S) == {i \in S : \A j \in S : ~IsoLess(g[j].timestamp, g[i].timestamp)}

\* ORDER BY t.timestamp: every ordering of the nodes that is ascending in the
\* timestamp string; the order among equal timestamps is not determined.
RECURSIVE OrderBy(_, _)
OrderBy(g, S) ==
    IF S = {} THEN {<<>>}
    ELSE UNION {{<<i>> \o o : o \in OrderBy(g, S \ {i})} : i \in Earliest(g, S)}

NextEdge(g, t1, t2) ==
    [type |-> "NEXT", src |-> t1, dst |-> t2,
     time_diff |-> SecondsBetween(g[t1].timestamp, g[t2].timestamp)]

\* Variant with the range ending one index early (range(0, size(txs)-3)):
\* the last adjacent pair gets no relationship.
NextEdgesShort(g, txs) == {NextEdge(g, txs[idx], txs[idx + 1]) : idx \in 1..(Len(txs) - 2)}

\* UNWIND range(0, size(txs)-2): empty for fewer than two nodes.
NextEdges(g, txs) == {NextEdge(g, txs[idx], txs[idx + 1]) : idx \in 1..(Len(txs) - 1)}

(***************************************************************************)
(* create_similar_relationships                                            *)
(***************************************************************************)
\* Variant with <= in place of <.
AmountCloseOrEqual(a, b) == 100 * Abs(a - b) <= TolerancePct * a

\* Variant with the tolerance measured against the target's amount.
AmountCloseToTarget(a, b) == 100 * Abs(a - b) < TolerancePct * b

\* abs(t1.amount - t2.amount) < 0.1 * t1.amount, in exact arithmetic.
AmountClose(a, b) == 100 * Abs(a - b) < TolerancePct * a

WithinWindow(ta, tb) == Abs(SecondsBetween(ta, tb)) < WindowSeconds

Similar(t1, t2) ==
    /\ t1.Transaction_ID # t2.Transaction_ID
    /\ t1.Transaction_Type = t2.Transaction_Type
    /\ AmountClose(t1.Transaction_Amount, t2.Transaction_Amount)
    /\ WithinWindow(t1.timestamp, t2.timestamp)

SimilarEdges(g) ==
    {[type |-> "SIMILAR", src |-> i, dst |-> j, time_diff |-> Unset] :
        <<i, j>> \in {p \in (1..Len(g)) \X (1..Len(g)) : Similar(g[p[1]], g[p[2]])}}

\* A set of new relationships as a bag, one copy each.
AsBag(S) == [e \in S |-> 1]

(***************************************************************************)
(* run_fmea                                                                *)
(***************************************************************************)
RECURSIVE SumOver(_, _)
SumOver(f, S) ==
    IF S = {} THEN 0
    ELSE LET i == CHOOSE x \in S : TRUE IN f[i] + SumOver(f, S \ {i})

\* stats_query. avg and stDev are kept as the exact quantities they are
\* computed from: the count n, the sum of the amounts, and
\* ss = SUM (n*x - sum)^2, so that avg = sum/n and, for n >= 2,
\* stDev^2 = ss / (n^2 * (n-1)); stDev = 0 for n < 2; avg is null for n = 0.
GlobalStats(g) ==
    LET n == Len(g)
        amt == [i \in 1..n |-> g[i].Transaction_Amount]
        s == SumOver(amt, 1..n)
    IN [n |-> n, sum |-> s,
        ss |-> SumOver([i \in 1..n |-> (n * amt[i] - s) * (n * amt[i] - s)], 1..n)]

\* Variant with >= in place of >.
ExceedsByOrEqual(amount, k, st) ==
    LET dev == st.n * amount - st.sum
    IN /\ dev >= 0
       /\ (st.n - 1) * dev * dev >= k * k * st.ss

\* amount > avg_amt + k * std_amt, for k >= 0.
ExceedsBy(amount, k, st) ==
    LET dev == st.n * amount - st.sum
    IN /\ dev > 0
       /\ (st.n - 1) * dev * dev > k * k * st.ss

Severity(amount, st) ==
    IF ExceedsBy(amount, 2, st) THEN SeverityHigh
    ELSE IF ExceedsBy(amount, 1, st) THEN SeverityMid
    ELSE SeverityLow

\* Variant counting the incoming SIMILAR relationships.
SimCountIncoming(e, t) ==
    BagCardinality([r \in {x \in DOMAIN e : x.type = "SIMILAR" /\ x.dst = t} |-> e[r]])

\* OPTIONAL MATCH (t)-[r:SIMILAR]->() ... count(r)
SimCount(e, t) ==
    BagCardinality([r \in {x \in DOMAIN e : x.type = "SIMILAR" /\ x.src = t} |-> e[r]])

Occurrence(sim_count) ==
    IF sim_count + 1 > OccurrenceCap THEN OccurrenceCap ELSE sim_count + 1

\* Variant with an exclusive boundary.
FailureModeExclusive(rpn, threshold) == IF rpn > threshold THEN "High Risk" ELSE "Normal"

FailureMode(rpn, threshold) == IF rpn >= threshold THEN "High Risk" ELSE "Normal"

\* Variant that adds the new RPN to the one already stored on the node.
ScoredNodeAccumulating(t, sim_count, st, threshold) ==
    LET severity == Severity(t.Transaction_Amount, st)
        rpn == severity * Occurrence(sim_count) * DetectionConst
        total == IF t.RPN = Unset THEN rpn ELSE t.RPN + rpn
    IN [t EXCEPT !.severity = severity,
                 !.occurrence = Occurrence(sim_count),
                 !.detection = DetectionConst,
                 !.RPN = total,
                 !.failure_mode = FailureMode(total, threshold)]

ScoredNode(t, sim_count, st, threshold) ==
    LET severity == Severity(t.Transaction_Amount, st)
        rpn == severity * Occurrence(sim_count) * DetectionConst
    IN [t EXCEPT !.severity = severity,
                 !.occurrence = Occurrence(sim_count),
                 !.detection = DetectionConst,
                 !.RPN = rpn,
                 !.failure_mode = FailureMode(rpn, threshold)]

FmeaQuery(g, e, st, threshold) ==
    [i \in 1..Len(g) |-> ScoredNode(g[i], SimCount(e, i), st, threshold)]

(***************************************************************************)
(* summary_report                                                          *)
(***************************************************************************)
SetMin(S) == CHOOSE x \in S : \A y \in S : x <= y
SetMax(S) == CHOOSE x \in S : \A y \in S : x >= y

\* Variant that counts as high risk every node whose RPN reaches the default
\* threshold, whatever failure_mode the node carries.
get_summary_report_by_rpn(g) ==
    LET n == Len(g)
        set == {i \in 1..n : g[i].RPN # Unset}
        rpn == [i \in 1..n |-> g[i].RPN]
    IN [total |-> n,
        highRisk |-> Cardinality({i \in 1..n : g[i].RPN >= DefaultThreshold}),
        rpnSum |-> SumOver(rpn, set),
        rpnCount |-> Cardinality(set),
        minRPN |-> IF set = {} THEN Unset ELSE SetMin({rpn[i] : i \in set}),
        maxRPN |-> IF set = {} THEN Unset ELSE SetMax({rpn[i] : i \in set})]

\* Aggregates skip null values; avg, min and max of no values are null.
\* avgRPN is kept as the pair rpnSum / rpnCount.
get_summary_report(g) ==
    LET n == Len(g)
        set == {i \in 1..n : g[i].RPN # Unset}
        rpn == [i \in 1..n |-> g[i].RPN]
    IN [total |-> n,
        highRisk |-> Cardinality({i \in 1..n : g[i].failure_mode = "High Risk"}),
        rpnSum |-> SumOver(rpn, set),
        rpnCount |-> Cardinality(set),
        minRPN |-> IF set = {} THEN Unset ELSE SetMin({rpn[i] : i \in set}),
        maxRPN |-> IF set = {} THEN Unset ELSE SetMax({rpn[i] : i \in set})]

\* main: the record is always truthy (it has five fields), so the report is
\* printed; formatting a null avgRPN with :.2f raises TypeError after the
\* first three lines.
ReportOutcome(summary) ==
    IF summary.rpnCount = 0 THEN "TypeError" ELSE "printed"

(***************************************************************************)
(* State machine                                                           *)
(***************************************************************************)
NoStats == [n |-> 0, sum |-> 0, ss |-> 0]
NoReport == [total |-> Unset, highRisk |-> Unset, rpnSum |-> Unset,
             rpnCount |-> Unset, minRPN |-> Unset, maxRPN |-> Unset]

Did(op) == [op |-> op, threshold |-> Unset, again |-> FALSE, outcome |-> "completed",
            stats |-> NoStats, report |-> NoReport]

StartState ==
    /\ nodes = <<>>
    /\ edges = EmptyBag
    /\ runs = [nodes |-> 0, next |-> 0, sim |-> 0]
    /\ ordered = TRUE
    /\ last = Did("none")

Init ==
    /\ df \in {load_data(raw) : raw \in RawBatches}
    /\ StartState

InitPop ==
    /\ df \in {load_data(raw) : raw \in PopBatches}
    /\ StartState

\* The builder steps so far are whole runs of main (nodes, NEXT, SIMILAR).
BuildsComplete == runs.nodes = runs.next /\ runs.next = runs.sim

\* A batch is loaded again only while the graph stays within MaxNodes nodes.
create_transaction_nodes ==
    /\ runs.nodes < MaxNodeRuns
    /\ runs.nodes = 0 \/ Len(nodes) + Len(df) <= MaxNodes
    /\ nodes' = CreatedNodes(nodes, df)
    /\ runs' = [runs EXCEPT !.nodes = @ + 1]
    /\ ordered' = (ordered /\ BuildsComplete)
    /\ last' = Did("create_transaction_nodes")
    /\ UNCHANGED <<df, edges>>

create_next_relationships ==
    /\ runs.next < MaxNextRuns
    /\ \E txs \in OrderBy(nodes, 1..Len(nodes)) :
          edges' = edges (+) AsBag(NextEdges(nodes, txs))
    /\ runs' = [runs EXCEPT !.next = @ + 1]
    /\ ordered' = (ordered /\ runs.nodes = runs.next + 1 /\ runs.sim = runs.next)
    /\ last' = Did("create_next_relationships")
    /\ UNCHANGED <<df, nodes>>

create_similar_relationships ==
    /\ runs.sim < MaxSimRuns
    /\ edges' = edges (+) AsBag(SimilarEdges(nodes))
    /\ runs' = [runs EXCEPT !.sim = @ + 1]
    /\ ordered' = (ordered /\ runs.next = runs.sim + 1 /\ runs.nodes = runs.next)
    /\ last' = Did("create_similar_relationships")
    /\ UNCHANGED <<df, nodes>>

run_fmea(threshold) ==
    LET st == GlobalStats(nodes)
    IN /\ nodes' = FmeaQuery(nodes, edges, st, threshold)
       /\ last' = [Did("run_fmea") EXCEPT
                      !.threshold = threshold,
                      !.again = (last.op = "run_fmea" /\ last.threshold = threshold),
                      !.stats = st]
       /\ UNCHANGED <<df, edges, runs, ordered>>

summary_report ==
    LET summary == get_summary_report(nodes)
    IN /\ last' = [Did("summary_report") EXCEPT
                      !.outcome = ReportOutcome(summary),
                      !.report = summary]
       /\ UNCHANGED <<df, nodes, edges, runs, ordered>>

Next ==
    \/ create_transaction_nodes
    \/ create_next_relationships
    \/ create_similar_relationships
    \/ \E threshold \in Thresholds : run_fmea(threshold)
    \/ summary_report

Spec == Init /\ [][Next]_vars

SpecPop == InitPop /\ [][Next]_vars

(***************************************************************************)
(* Properties.  The helpers below restate the quantities the properties    *)
(* speak of directly on the graph, independently of the operators above.   *)
(***************************************************************************)
NodeIds == 1..Len(nodes)

EdgesOfType(type) == {e \in DOMAIN edges : e.type = type}

\* Number of relationships of a type, with multiplicity.
CountOfType(type) == SumOver(edges, EdgesOfType(type))

\* Number of relationships of a type from node i to node j, with multiplicity.
CountBetween(type, i, j) ==
    SumOver(edges, {e \in EdgesOfType(type) : e.src = i /\ e.dst = j})

Instant(i) == EpochSeconds(nodes[i].timestamp)

Orderings == {p \in [NodeIds -> NodeIds] : \A i \in NodeIds : \A j \in NodeIds : p[i] = p[j] => i = j}

\* The builder has run create_transaction_nodes and then
\* create_next_relationships once each, on an empty graph.
NodesThenNext == ordered /\ runs.nodes = 1 /\ runs.next = 1

\* C1: after create_transaction_nodes followed by create_next_relationships on
\* a batch of n nodes there are exactly n-1 NEXT relationships (none for
\* n = 0 or n = 1); they form one directed path that visits every node exactly
\* once in ascending timestamp order; every time_diff is the target's instant
\* minus the source's, in whole seconds, and is >= 0.
NextChain ==
    NodesThenNext =>
        /\ Len(nodes) = Len(df)
        /\ CountOfType("NEXT") = (IF Len(nodes) = 0 THEN 0 ELSE Len(nodes) - 1)
        /\ \E p \in Orderings :
              \A k \in 1..(Len(nodes) - 1) :
                  /\ CountBetween("NEXT", p[k], p[k + 1]) = 1
                  /\ Instant(p[k]) <= Instant(p[k + 1])
        /\ \A e \in EdgesOfType("NEXT") :
              /\ e.time_diff = Instant(e.dst) - Instant(e.src)
              /\ e.time_diff >= 0

\* A chain over three nodes, two of them at the same instant.
NextChainWitness ==
    /\ NodesThenNext
    /\ Len(nodes) = 3
    /\ CountOfType("NEXT") = 2
    /\ \E e \in EdgesOfType("NEXT") : e.time_diff = 0
    /\ \E e \in EdgesOfType("NEXT") : e.time_diff = 600

\* The condition of create_similar_relationships on two nodes, restated.
ShouldBeSimilar(a, b) ==
    /\ a.Transaction_Type = b.Transaction_Type
    /\ 10 * Abs(a.Transaction_Amount - b.Transaction_Amount) < a.Transaction_Amount
    /\ Abs(EpochSeconds(a.timestamp) - EpochSeconds(b.timestamp)) < 3600

HasSimilar(i, j) == CountBetween("SIMILAR", i, j) > 0

\* Two nodes of one type, ten minutes apart, with the given amounts.
TenMinutePair(i, j, amount_i, amount_j) ==
    /\ nodes[i].Transaction_ID # nodes[j].Transaction_ID
    /\ nodes[i].Transaction_Type = nodes[j].Transaction_Type
    /\ Abs(Instant(i) - Instant(j)) = 600
    /\ nodes[i].Transaction_Amount = amount_i
    /\ nodes[j].Transaction_Amount = amount_j

\* C2: after create_similar_relationships, for every ordered pair (a, b) of
\* nodes with different identifiers a SIMILAR relationship a -> b exists iff
\* the types are equal, |amount(a) - amount(b)| < 0.1 * amount(a) and the
\* timestamps are less than 3600 seconds apart; each direction is decided on
\* its own (amounts 100 and 105 ten minutes apart give both directions,
\* 100 and 111 only the one from 111 to 100); no node is SIMILAR to itself.
SimilarExactly ==
    last.op = "create_similar_relationships" =>
        /\ \A i \in NodeIds : \A j \in NodeIds :
              nodes[i].Transaction_ID # nodes[j].Transaction_ID =>
                  (HasSimilar(i, j) <=> ShouldBeSimilar(nodes[i], nodes[j]))
        /\ \A i \in NodeIds : \A j \in NodeIds :
              /\ TenMinutePair(i, j, 100, 105) => HasSimilar(i, j) /\ HasSimilar(j, i)
              /\ TenMinutePair(i, j, 100, 111) => ~HasSimilar(i, j) /\ HasSimilar(j, i)
        /\ \A e \in EdgesOfType("SIMILAR") : e.src # e.dst

\* A graph holding both example pairs after create_similar_relationships.
SimilarExactlyWitness ==
    /\ last.op = "create_similar_relationships"
    /\ \E i \in NodeIds : \E j \in NodeIds :
          TenMinutePair(i, j, 100, 105) /\ HasSimilar(i, j) /\ HasSimilar(j, i)
    /\ \E i \in NodeIds : \E j \in NodeIds :
          TenMinutePair(i, j, 100, 111) /\ ~HasSimilar(i, j) /\ HasSimilar(j, i)

\* The builder steps so far are k >= 1 whole runs of main, in main's order.
WholeBuilds == ordered /\ BuildsComplete /\ runs.nodes >= 1

\* C3: after any number of whole builder runs on the same batch the
\* relationships are those of one run: at most one relationship of a type
\* between any ordered pair of nodes, and (as after one run) one NEXT
\* relationship less than the batch has rows.
BuilderIdempotent ==
    WholeBuilds =>
        /\ \A e \in DOMAIN edges : CountBetween(e.type, e.src, e.dst) = 1
        /\ CountOfType("NEXT") = (IF Len(df) = 0 THEN 0 ELSE Len(df) - 1)

\* The identifying fields of a node and the relationships are as before.
RecordKept(i) ==
    /\ nodes'[i].Transaction_ID = nodes[i].Transaction_ID
    /\ nodes'[i].Transaction_Amount = nodes[i].Transaction_Amount
    /\ nodes'[i].Transaction_Type = nodes[i].Transaction_Type
    /\ nodes'[i].timestamp = nodes[i].timestamp

\* C4: a run_fmea that directly follows a run_fmea with the same threshold
\* leaves severity, occurrence, detection, RPN and failure_mode of every node
\* as they were (overwritten, not accumulated); every run_fmea leaves the
\* relationships and each node's identifier, amount, type and timestamp alone.
FmeaIdempotent ==
    [][/\ last'.op = "run_fmea" =>
             /\ edges' = edges
             /\ Len(nodes') = Len(nodes)
             /\ \A i \in NodeIds : RecordKept(i)
       /\ (last.op = "run_fmea" /\ last'.op = "run_fmea"
             /\ last'.threshold = last.threshold) => nodes' = nodes]_vars

\* run_fmea has run twice in a row with one threshold on a graph where some
\* node has SIMILAR relationships and is High Risk.
FmeaIdempotentWitness ==
    /\ last.op = "run_fmea"
    /\ last.again
    /\ \E i \in NodeIds : nodes[i].occurrence > 1 /\ nodes[i].failure_mode = "High Risk"

\* The population statistics, restated: with n amounts of sum s, the mean is
\* s/n, n*x - s is n times the deviation of x, and for n >= 2 the sample
\* variance is q / (n^2 * (n-1)) with q the sum of the squares of n*x - s;
\* the standard deviation is 0 exactly when q = 0.
AmountSum == SumOver([i \in NodeIds |-> nodes[i].Transaction_Amount], NodeIds)

Dev(i, s) == Len(nodes) * nodes[i].Transaction_Amount - s

SqDevSum(s) == SumOver([i \in NodeIds |-> Dev(i, s) * Dev(i, s)], NodeIds)

\* amount(i) > mean + k * stddev
Above(i, k, s, q) == Dev(i, s) > 0 /\ (Len(nodes) - 1) * Dev(i, s) * Dev(i, s) > k * k * q

\* amount(i) = mean + k * stddev
AtBoundary(i, k, s, q) ==
    Dev(i, s) >= 0 /\ (Len(nodes) - 1) * Dev(i, s) * Dev(i, s) = k * k * q

SeverityRule(i, s, q) ==
    /\ nodes[i].severity \in {3, 7, 10}
    /\ nodes[i].severity =
          (IF Above(i, 2, s, q) THEN 10 ELSE IF Above(i, 1, s, q) THEN 7 ELSE 3)

\* C5 as stated: severity is 10 above mean + 2 stddev, else 7 above
\* mean + stddev, else 3, never another value; an amount equal to
\* mean + 2 stddev gets 7 and an amount equal to mean + stddev gets 3.
SeverityTiersAsStated ==
    last.op = "run_fmea" =>
        LET s == AmountSum
            q == SqDevSum(s)
        IN \A i \in NodeIds :
              /\ SeverityRule(i, s, q)
              /\ AtBoundary(i, 2, s, q) => nodes[i].severity = 7
              /\ AtBoundary(i, 1, s, q) => nodes[i].severity = 3

\* C5, amended: the same rule; an amount equal to mean + 2 stddev gets 7 when
\* the standard deviation is positive and 3 when it is 0 (then the amount
\* equals the mean); an amount equal to mean + stddev gets 3.
SeverityTiers ==
    last.op = "run_fmea" =>
        LET s == AmountSum
            q == SqDevSum(s)
        IN \A i \in NodeIds :
              /\ SeverityRule(i, s, q)
              /\ (AtBoundary(i, 2, s, q) /\ q > 0) => nodes[i].severity = 7
              /\ (AtBoundary(i, 2, s, q) /\ q = 0) => nodes[i].severity = 3
              /\ AtBoundary(i, 1, s, q) => nodes[i].severity = 3

\* A scored population with positive deviation holding a node exactly at
\* mean + 2 stddev, with severity 7.
SeverityTiersWitness ==
    /\ last.op = "run_fmea"
    /\ LET s == AmountSum
           q == SqDevSum(s)
       IN /\ q > 0
          /\ \E i \in NodeIds : AtBoundary(i, 2, s, q) /\ nodes[i].severity = 7

OutSimilar(i) == SumOver(edges, {e \in EdgesOfType("SIMILAR") : e.src = i})

InSimilar(i) == SumOver(edges, {e \in EdgesOfType("SIMILAR") : e.dst = i})

\* C6: for every node scored by run_fmea, occurrence = min(k + 1, 10) with k
\* the number of the node's outgoing SIMILAR relationships, detection = 5 and
\* RPN = severity * occurrence * 5; so occurrence is in 1..10, RPN in 15..500,
\* and with k >= 12 occurrence is 10 and RPN = severity * 50.
OccurrenceAndRpn ==
    last.op = "run_fmea" =>
        \A i \in NodeIds :
            LET k == OutSimilar(i)
                t == nodes[i]
            IN /\ t.occurrence = (IF k + 1 < 10 THEN k + 1 ELSE 10)
               /\ t.detection = 5
               /\ t.RPN = t.severity * t.occurrence * 5
               /\ t.occurrence \in 1..10
               /\ t.RPN \in 15..500
               /\ k >= 12 => (t.occurrence = 10 /\ t.RPN = t.severity * 50)

\* A scored node with twelve outgoing SIMILAR relationships, fewer incoming
\* ones, NEXT relationships in the graph, and the largest RPN.
OccurrenceAndRpnWitness ==
    /\ last.op = "run_fmea"
    /\ CountOfType("NEXT") > 0
    /\ \E i \in NodeIds :
          /\ OutSimilar(i) >= 12
          /\ InSimilar(i) < OutSimilar(i)
          /\ nodes[i].occurrence = 10
          /\ nodes[i].RPN = 500

\* C7: for every node scored by run_fmea with threshold T, failure_mode is
\* High Risk iff RPN >= T and Normal otherwise; with T = 30 an RPN of 30 is
\* High Risk and an RPN below 30 is Normal.
ThresholdInclusive ==
    last.op = "run_fmea" =>
        \A i \in NodeIds :
            /\ nodes[i].failure_mode \in {"High Risk", "Normal"}
            /\ nodes[i].failure_mode = "High Risk" <=> nodes[i].RPN >= last.threshold
            /\ (last.threshold = 30 /\ nodes[i].RPN = 30) => nodes[i].failure_mode = "High Risk"
            /\ (last.threshold = 30 /\ nodes[i].RPN < 30) => nodes[i].failure_mode = "Normal"

\* Scored with the default threshold: a node at RPN 30 exactly is High Risk.
ThresholdInclusiveWitness ==
    /\ last.op = "run_fmea"
    /\ last.threshold = 30
    /\ \E i \in NodeIds : nodes[i].RPN = 30 /\ nodes[i].failure_mode = "High Risk"

\* C8: run_fmea on a graph without Transaction nodes ends in a "no data"
\* error and does not run the scoring pass.
FmeaFailsOnEmptyGraph ==
    (last.op = "run_fmea" /\ Len(nodes) = 0) => last.outcome = "no data"

\* C9: the summary report on a graph without Transaction nodes reports
\* "no data": it neither prints a report with total 0 nor ends in another
\* error.
ReportNoDataOnEmptyGraph ==
    (last.op = "summary_report" /\ Len(nodes) = 0) => last.outcome = "no data"

\* C10: no two Transaction nodes of the graph share a Transaction_ID, also
\* after create_transaction_nodes has run again with the same batch.
UniqueTransactionIds ==
    \A i \in NodeIds : \A j \in NodeIds :
        nodes[i].Transaction_ID = nodes[j].Transaction_ID => i = j

\* Every node of a non-empty graph carries the scores of run_fmea.
ScoredGraph == Len(nodes) > 0 /\ \A i \in NodeIds : nodes[i].RPN # Unset

HighRiskNodes == {i \in NodeIds : nodes[i].failure_mode = "High Risk"}

RpnTotal == SumOver([i \in NodeIds |-> nodes[i].RPN], NodeIds)

\* C11: the summary report's total is the number of nodes and its highRisk
\* the number of nodes whose failure_mode is High Risk; on a scored graph
\* minRPN is the least and maxRPN the greatest RPN of all nodes, avgRPN is the
\* sum of all nodes' RPN over their number, and minRPN <= avgRPN <= maxRPN.
SummaryConsistent ==
    last.op = "summary_report" =>
        LET r == last.report
        IN /\ r.total = Len(nodes)
           /\ r.highRisk = Cardinality(HighRiskNodes)
           /\ ScoredGraph =>
                 /\ last.outcome = "printed"
                 /\ r.rpnCount = Len(nodes)
                 /\ r.rpnSum = RpnTotal
                 /\ \E i \in NodeIds : nodes[i].RPN = r.minRPN
                 /\ \E i \in NodeIds : nodes[i].RPN = r.maxRPN
                 /\ \A i \in NodeIds : r.minRPN <= nodes[i].RPN /\ nodes[i].RPN <= r.maxRPN
                 /\ r.minRPN * r.rpnCount <= r.rpnSum
                 /\ r.rpnSum <= r.maxRPN * r.rpnCount

\* A report on a graph scored with threshold 100 that holds High Risk and
\* Normal nodes, among the Normal ones a node with an RPN of 30 or more, and
\* whose average lies strictly between the least and the greatest RPN.
SummaryConsistentWitness ==
    /\ last.op = "summary_report"
    /\ ScoredGraph
    /\ last.report.highRisk > 0
    /\ last.report.highRisk < last.report.total
    /\ \E i \in NodeIds : nodes[i].RPN >= 30 /\ nodes[i].failure_mode = "Normal"
    /\ last.report.minRPN * last.report.rpnCount < last.report.rpnSum
    /\ last.report.rpnSum < last.report.maxRPN * last.report.rpnCount

\* Two nodes with different identifiers, of one type and less than an hour
\* apart.
Neighbours(i, j) ==
    /\ nodes[i].Transaction_ID # nodes[j].Transaction_ID
    /\ nodes[i].Transaction_Type = nodes[j].Transaction_Type
    /\ Abs(Instant(i) - Instant(j)) < 3600

\* C12 as stated: after create_similar_relationships a node a with amount 0
\* has a SIMILAR relationship to exactly those nodes b with another
\* identifier, the same type and a timestamp less than an hour away whose
\* amount is 0 as well.
ZeroAmountSimilarToZero ==
    last.op = "create_similar_relationships" =>
        \A i \in NodeIds : \A j \in NodeIds :
            (nodes[i].Transaction_Amount = 0
               /\ nodes[i].Transaction_ID # nodes[j].Transaction_ID) =>
                (HasSimilar(i, j) <=>
                    (Neighbours(i, j) /\ nodes[j].Transaction_Amount = 0))

\* C12, amended: a node with amount 0 never is the source of a SIMILAR
\* relationship, whatever the other node's amount, type and timestamp:
\* |0 - amount(b)| < 0.1 * 0 holds for no amount(b), 0 included.
ZeroAmountNoSimilar ==
    \A i \in NodeIds : nodes[i].Transaction_Amount = 0 => OutSimilar(i) = 0

\* After create_similar_relationships: two nodes with amount 0, of one type
\* and at one instant, without a SIMILAR relationship in either direction.
ZeroAmountNoSimilarWitness ==
    /\ last.op = "create_similar_relationships"
    /\ \E i \in NodeIds : \E j \in NodeIds :
          /\ Neighbours(i, j)
          /\ nodes[i].Transaction_Amount = 0
          /\ nodes[j].Transaction_Amount = 0
          /\ ~HasSimilar(i, j)
          /\ ~HasSimilar(j, i)

\* The row number a node's Transaction_ID spells out.
IdNumber(i) == CHOOSE k \in 0..Len(nodes) : ToStr(k) = nodes[i].Transaction_ID

\* Node i comes before node j in the order by timestamp, ties broken by
\* identifier.
Before(i, j) ==
    \/ Instant(i) < Instant(j)
    \/ Instant(i) = Instant(j) /\ IdNumber(i) < IdNumber(j)

\* C13: the NEXT relationships are a function of the batch: after
\* create_transaction_nodes and create_next_relationships on a fresh graph
\* there is one NEXT relationship from i to j exactly when j directly follows
\* i in the order by timestamp with ties broken by identifier, and none
\* otherwise, also when several nodes share a timestamp.
NextDeterministic ==
    NodesThenNext =>
        \A i \in NodeIds : \A j \in NodeIds :
            CountBetween("NEXT", i, j) =
                (IF Before(i, j) /\ ~\E k \in NodeIds : Before(i, k) /\ Before(k, j)
                 THEN 1 ELSE 0)

====
